---------------------------- MODULE Spec2Model ----------------------------
(***************************************************************************)
(* A model of bumprev.py: the revision counter file <basename>_rev.rev,    *)
(* the three generated files <basename>_rev.h/.i/.s and the steps of one   *)
(* invocation of the script (the __main__ block, RevisionFile              *)
(* .bump_revision and the three codegen methods).                          *)
(*                                                                         *)
(* Text is a sequence of one-character strings, except that the fixed      *)
(* pieces of the output templates are kept as single tokens.  Files are    *)
(* records [exists, data].  File objects are buffered: a write is kept in  *)
(* the object until close() flushes it at the position of the write.       *)
(* A flush is all or nothing.  Every open, read, seek, write and flush may *)
(* fail with IOError.                                                      *)
(***************************************************************************)
EXTENDS Integers, Sequences, FiniteSets, TLC

(***************************************************************************)
(* Bounds of the model.                                                    *)
(***************************************************************************)
MaxSuffixLen == 2       \* longest -i argument tried, besides the default
MaxInitRev == 2         \* initial counter values range over -MaxInitRev-1 .. MaxInitRev, and 9
MaxTicks == 1           \* how many times the calendar day may change
MaxInvocations == 11    \* sequential invocations on the same base path

(***************************************************************************)
(* Text helpers: str(), int(), readline(), count(), os.path.basename().    *)
(***************************************************************************)
NL == "\n"

DigitChars == <<"0", "1", "2", "3", "4", "5", "6", "7", "8", "9">>

RECURSIVE DigitsOf(_)
DigitsOf(n) ==
    IF n < 10 THEN <<DigitChars[n + 1]>>
              ELSE DigitsOf(n \div 10) \o <<DigitChars[(n % 10) + 1]>>

\* str(n) of a Python int
Str(n) == IF n < 0 THEN <<"-">> \o DigitsOf(-n) ELSE DigitsOf(n)

IsDigit(c) == \E k \in 1..Len(DigitChars) : DigitChars[k] = c

DigitVal(c) == (CHOOSE k \in 1..Len(DigitChars) : DigitChars[k] = c) - 1

IsSpace(c) == c \in {NL, " "}

RECURSIVE LStrip(_)
LStrip(s) == IF s # <<>> /\ IsSpace(Head(s)) THEN LStrip(Tail(s)) ELSE s

RECURSIVE RStrip(_)
RStrip(s) ==
    IF s # <<>> /\ IsSpace(s[Len(s)]) THEN RStrip(SubSeq(s, 1, Len(s) - 1)) ELSE s

Strip(s) == RStrip(LStrip(s))

Unsigned(s) == IF s # <<>> /\ Head(s) \in {"-", "+"} THEN Tail(s) ELSE s

\* int(s) succeeds: optional blanks, optional sign, one or more digits
IsInt(s) ==
    LET u == Unsigned(Strip(s))
    IN  u # <<>> /\ \A k \in 1..Len(u) : IsDigit(u[k])

RECURSIVE NatVal(_)
NatVal(u) ==
    IF u = <<>> THEN 0
    ELSE 10 * NatVal(SubSeq(u, 1, Len(u) - 1)) + DigitVal(u[Len(u)])

\* int(s), where IsInt(s)
IntVal(s) ==
    LET t == Strip(s)
    IN  IF Head(t) = "-" THEN 0 - NatVal(Unsigned(t)) ELSE NatVal(Unsigned(t))

RECURSIVE ReadLine(_)
\* file.readline() at position 0: up to and including the first newline
ReadLine(data) ==
    IF data = <<>> THEN <<>>
    ELSE IF Head(data) = NL THEN <<NL>>
    ELSE <<Head(data)>> \o ReadLine(Tail(data))

\* the bytes of a file after `buf` has been written at position 0 (no truncation)
WriteAt0(data, buf) ==
    IF Len(buf) >= Len(data) THEN buf
    ELSE buf \o SubSeq(data, Len(buf) + 1, Len(data))

\* s.count(c)
Count(s, c) == Cardinality({k \in 1..Len(s) : s[k] = c})

RECURSIVE Basename(_)
\* os.path.basename(path)
Basename(path) ==
    IF \E k \in 1..Len(path) : path[k] = "/" THEN Basename(Tail(path)) ELSE path


RECURSIVE Concat(_)
\* the concatenation of a sequence of texts
Concat(ss) == IF ss = <<>> THEN <<>> ELSE Head(ss) \o Concat(Tail(ss))

\* putln(line): the line and a newline
PutLn(line) == line \o <<NL>>

(***************************************************************************)
(* The calendar: date.today() is Days[today + 1]; the day may change       *)
(* between any two steps.                                                  *)
(***************************************************************************)
Days ==
    << [day |-> 31, month |-> 12, year |-> 2024],
       [day |-> 1,  month |-> 1,  year |-> 2025],
       [day |-> 2,  month |-> 1,  year |-> 2025],
       [day |-> 3,  month |-> 1,  year |-> 2025] >>

\* str(now.day) + '.' + str(now.month) + '.' + str(now.year)
DateStr(now) == Str(now.day) \o <<".">> \o Str(now.month) \o <<".">> \o Str(now.year)

\* name + ' ' + ver + '.' + rev
NameVerRev(name, ver, rev) == name \o <<" ">> \o ver \o <<".">> \o rev

(***************************************************************************)
(* The text each codegen writes, given the strings name, ver, rev, date.   *)
(***************************************************************************)
HFileText(name, ver, rev, date) ==
    LET nvr == NameVerRev(name, ver, rev)
    IN  Concat(<<
          PutLn(<<"#define VERSION   ">> \o ver),
          PutLn(<<"#define REVISION  ">> \o rev),
          PutLn(<<"#define DATE      \"">> \o date \o <<"\"">>),
          PutLn(<<"#define VERS      \"">> \o nvr \o <<"\"">>),
          PutLn(<<"#define VSTRING   \"">> \o nvr \o <<" (">> \o date \o <<")\\r\\n\"">>),
          PutLn(<<"#define VERSTAG   \"\\0$VER: ">> \o nvr \o <<" (">> \o date \o <<")\"">>)
        >>)

IFileText(name, ver, rev, date) ==
    LET nvr == NameVerRev(name, ver, rev)
    IN  Concat(<<
          PutLn(<<"VERSION\t\tEQU ">> \o ver),
          PutLn(<<"REVISION\tEQU ">> \o rev),
          PutLn(<<>>),
          PutLn(<<"DATE\tMACRO">>),
          PutLn(<<"\t\tdc.b '">> \o date \o <<"'">>),
          PutLn(<<"\t\tENDM">>),
          PutLn(<<>>),
          PutLn(<<"VERS\tMACRO">>),
          PutLn(<<"\t\tdc.b '">> \o nvr \o <<"'">>),
          PutLn(<<"\t\tENDM">>),
          PutLn(<<>>),
          PutLn(<<"VSTRING\tMACRO">>),
          PutLn(<<"\t\tdc.b '">> \o nvr \o <<" (">> \o date \o <<")',13,10,0">>),
          PutLn(<<"\t\tENDM">>),
          PutLn(<<>>),
          PutLn(<<"VERSTAG\tMACRO">>),
          PutLn(<<"\t\tdc.b 0,'$VER: ">> \o nvr \o <<" (">> \o date \o <<"',0">>),
          PutLn(<<"\t\tENDM">>)
        >>)

SFileText(name, ver, rev, date) ==
    LET nvr == NameVerRev(name, ver, rev)
    IN  Concat(<<
          PutLn(<<"VERSION = ">> \o ver),
          PutLn(<<"REVISION = ">> \o rev),
          PutLn(<<>>),
          PutLn(<<".macro DATE">>),
          PutLn(<<".ascii \"">> \o date \o <<"\"">>),
          PutLn(<<".endm">>),
          PutLn(<<>>),
          PutLn(<<".macro VERS">>),
          PutLn(<<".ascii \"">> \o nvr \o <<"\"">>),
          PutLn(<<".endm">>),
          PutLn(<<>>),
          PutLn(<<".macro VSTRING">>),
          PutLn(<<".ascii \"">> \o nvr \o <<" (">> \o date \o <<")\"">>),
          PutLn(<<".byte 13,10,0">>),
          PutLn(<<".endm">>),
          PutLn(<<>>),
          PutLn(<<".macro VERSTAG">>),
          PutLn(<<".byte 0">>),
          PutLn(<<".ascii \"$VER: ">> \o nvr \o <<" (">> \o date \o <<")\"">>),
          PutLn(<<".byte 0">>),
          PutLn(<<".endm">>)
        >>)

\* the formats in the order __main__ generates them
Order == <<"h", "i", "s">>

Formats == {Order[k] : k \in 1..Len(Order)}

\* the text the codegen of format f writes
CodegenText(f, name, ver, rev, date) ==
    CASE f = "h" -> HFileText(name, ver, rev, date)
      [] f = "i" -> IFileText(name, ver, rev, date)
      [] f = "s" -> SFileText(name, ver, rev, date)

(***************************************************************************)
(* Files.                                                                  *)
(***************************************************************************)
NoFile == [exists |-> FALSE, data |-> <<>>]

File(data) == [exists |-> TRUE, data |-> data]

\* a generated file left by some earlier build
OldOut == File(<<"old", NL>>)

(***************************************************************************)
(* Inputs.                                                                 *)
(***************************************************************************)
Procs == {1, 2}

SuffixChars == {"h", "i", "s", "x"}

RECURSIVE SeqsUpTo(_, _)
\* the sequences over S of length at most n
SeqsUpTo(S, n) ==
    IF n = 0 THEN {<<>>}
    ELSE LET shorter == SeqsUpTo(S, n - 1)
         IN  shorter \cup {Append(t, c) : t \in shorter, c \in S}

\* the default of args['i']
DefaultSuffix == <<"h", "i", "s">>

\* the -i arguments tried
Suffixes == SeqsUpTo(SuffixChars, MaxSuffixLen) \cup {DefaultSuffix}

\* the basename argument: every invocation of the model names the same base path
BasePath == <<"d", "/", "m", "y">>

\* the -n arguments tried: absent (args['n'] is None) or given
NameArgs == {[given |-> FALSE, name |-> <<>>], [given |-> TRUE, name |-> <<"p">>]}

\* the vernum arguments tried
VerNums == {54}

\* counter values a counter file may hold before the first invocation
InitRevs == ((0 - MaxInitRev - 1)..MaxInitRev) \cup {9}

\* contents a counter file may have before the first invocation: a value as
\* the tool writes it, a value without its newline, with a leading zero, or
\* followed by a second line; an empty file; a file that holds no integer
InitRevData ==
    {Str(n) \o <<NL>> : n \in InitRevs}
      \cup {Str(n) : n \in 0..MaxInitRev}
      \cup {<<"0">> \o Str(n) \o <<NL>> : n \in 0..MaxInitRev}
      \cup {Str(n) \o <<NL, "x", NL>> : n \in 0..MaxInitRev}
      \cup {<<>>, <<"x", NL>>}

(***************************************************************************)
(* State.                                                                  *)
(***************************************************************************)
VARIABLES
    revFile,      \* the file <basename>_rev.rev
    outFiles,     \* the files <basename>_rev.h, _rev.i, _rev.s, by format
    today,        \* how many times the calendar day has changed
    inv,          \* by process: the state of its invocation of the script
    results,      \* history: the revisions returned by the bumps that rewrote the counter file
    invocations   \* history: how many invocations have started

vars == <<revFile, outFiles, today, inv, results, invocations>>

\* an invocation that has not started: args holds its defaults and
\* bump_revision's local revision its default, the error value
Idle ==
    [ pc         |-> "idle",
      i          |-> DefaultSuffix,      \* args['i']
      n          |-> [given |-> FALSE, name |-> <<>>],  \* args['n']
      vernum     |-> 1,                  \* args['vernum']
      revision   |-> 0 - 1,              \* the local of bump_revision, then of __main__
      pending    |-> <<>>,               \* text written to the open counter file, not yet flushed
      next       |-> 1,                  \* the place in Order of the next format
      exitCode   |-> 0,                  \* the exit code, once pc = "exited"
      \* history
      rev0       |-> NoFile,             \* the counter file when the invocation started
      out0       |-> [f \in Formats |-> NoFile],  \* the generated files at that time
      bumpCalled |-> FALSE,              \* bump_revision was called
      bumpFailed |-> FALSE,              \* the counter file could not be opened, read, parsed or written
      flushed    |-> FALSE,              \* the call rewrote the counter file
      returned   |-> FALSE,              \* bump_revision returned (rather than raised)
      ran        |-> {},                 \* formats whose codegen was called
      opened     |-> {},                 \* formats whose codegen opened (and so truncated) its file
      wrote      |-> {},                 \* formats whose codegen wrote its file and returned True
      failed     |-> {} ]                \* formats whose codegen could not open or write its file

TypeOK ==
    /\ revFile.exists \in BOOLEAN
    /\ \A f \in Formats : outFiles[f].exists \in BOOLEAN
    /\ today \in 0..MaxTicks
    /\ \A p \in Procs : inv[p].exitCode \in {0, 1}
    /\ invocations \in 0..(MaxInvocations + 1)

InitCommon ==
    /\ today = 0
    /\ inv = [p \in Procs |-> Idle]
    /\ results = <<>>
    /\ invocations = 0

\* any counter file, any set of generated files
Init ==
    /\ revFile \in {NoFile} \cup {File(d) : d \in InitRevData}
    /\ outFiles \in [Formats -> {NoFile, OldOut}]
    /\ InitCommon

\* no counter file and no generated files
InitFresh ==
    /\ revFile = NoFile
    /\ outFiles = [f \in Formats |-> NoFile]
    /\ InitCommon

\* no counter file, or one as the tool leaves it, holding N >= 1
InitConc ==
    /\ revFile \in {NoFile} \cup {File(Str(n) \o <<NL>>) : n \in {1, 9}}
    /\ outFiles = [f \in Formats |-> NoFile]
    /\ InitCommon

(***************************************************************************)
(* __main__ up to the bump.                                                *)
(***************************************************************************)
\* the uncaught exception or exit(code) that ends the invocation
Exited(me, code) == [me EXCEPT !.pc = "exited", !.exitCode = code]

\* a num_files_to_bump that counts every character of the argument
NumFilesToBumpAnyChar(i) == Len(i)

\* num_files_to_bump
NumFilesToBump(i) == Count(i, "h") + Count(i, "i") + Count(i, "s")

\* parse_args() with some command line, and its check:
\* the -i, -n and vernum arguments are drawn from suffixes, names and VerNums
MainStart(p, suffixes, names) ==
    /\ inv[p].pc = "idle"
    /\ invocations' = invocations + 1
    /\ \E ok \in BOOLEAN, i \in suffixes, n \in names, v \in VerNums :
         LET me == [inv[p] EXCEPT !.rev0 = revFile, !.out0 = outFiles]
         IN  inv' = [inv EXCEPT ![p] =
                 IF ok THEN [me EXCEPT !.pc = "formats", !.i = i, !.n = n, !.vernum = v]
                       ELSE Exited(me, 1)]
    /\ UNCHANGED <<revFile, outFiles, today, results>>

\* "Do nothing if there is no valid output file format."; else bump_revision is called
CheckFormats(p) ==
    /\ inv[p].pc = "formats"
    /\ inv' = [inv EXCEPT ![p] =
           IF NumFilesToBump(@.i) = 0 THEN Exited(@, 1)
           ELSE [@ EXCEPT !.pc = "isfile", !.bumpCalled = TRUE]]
    /\ UNCHANGED <<revFile, outFiles, today, results, invocations>>

(***************************************************************************)
(* RevisionFile.bump_revision, one step per call it makes.                 *)
(***************************************************************************)
\* os.path.isfile(self.rev_path)
IsFile(p) ==
    /\ inv[p].pc = "isfile"
    /\ inv' = [inv EXCEPT ![p].pc = IF revFile.exists THEN "open_rw" ELSE "open_new"]
    /\ UNCHANGED <<revFile, outFiles, today, results, invocations>>

\* open(self.rev_path, 'r+'); when it raises, the finally clause reads the
\* unbound local `file` and the UnboundLocalError ends the invocation
OpenExisting(p) ==
    /\ inv[p].pc = "open_rw"
    /\ \E ok \in BOOLEAN :
         inv' = [inv EXCEPT ![p] =
             IF ok /\ revFile.exists THEN [@ EXCEPT !.pc = "readline"]
             ELSE Exited([@ EXCEPT !.bumpFailed = TRUE], 1)]
    /\ UNCHANGED <<revFile, outFiles, today, results, invocations>>

\* revision = int(file.readline()): an IOError is caught, a ValueError is not
ReadRevision(p) ==
    /\ inv[p].pc = "readline"
    /\ \E ok \in BOOLEAN :
         LET line == ReadLine(revFile.data)
         IN  inv' = [inv EXCEPT ![p] =
                 IF ~ok THEN [@ EXCEPT !.pc = "close", !.bumpFailed = TRUE]
                 ELSE IF IsInt(line) THEN [@ EXCEPT !.pc = "seek", !.revision = IntVal(line)]
                 ELSE Exited([@ EXCEPT !.bumpFailed = TRUE], 1)]
    /\ UNCHANGED <<revFile, outFiles, today, results, invocations>>

\* file.seek(0)
Seek(p) ==
    /\ inv[p].pc = "seek"
    /\ \E ok \in BOOLEAN :
         inv' = [inv EXCEPT ![p] =
             IF ok THEN [@ EXCEPT !.pc = "write"]
             ELSE [@ EXCEPT !.pc = "close", !.bumpFailed = TRUE]]
    /\ UNCHANGED <<revFile, outFiles, today, results, invocations>>

\* a write of str(revision): the increment forgotten
BumpedTextNoIncrement(revision) == Str(revision) \o <<NL>>

\* the text of file.write(str(revision + 1) + '\n')
BumpedText(revision) == Str(revision + 1) \o <<NL>>

\* file.write(str(revision + 1) + '\n'); revision += 1
WriteBumped(p) ==
    /\ inv[p].pc = "write"
    /\ \E ok \in BOOLEAN :
         inv' = [inv EXCEPT ![p] =
             IF ok THEN [@ EXCEPT !.pc = "close", !.pending = BumpedText(inv[p].revision),
                                  !.revision = @ + 1]
             ELSE [@ EXCEPT !.pc = "close", !.bumpFailed = TRUE]]
    /\ UNCHANGED <<revFile, outFiles, today, results, invocations>>

\* open(self.rev_path, 'w') creates or truncates the file; when it raises,
\* the finally clause raises UnboundLocalError
OpenNew(p) ==
    /\ inv[p].pc = "open_new"
    /\ \E ok \in BOOLEAN :
         IF ok
         THEN /\ revFile' = File(<<>>)
              /\ inv' = [inv EXCEPT ![p].pc = "write_new"]
         ELSE /\ revFile' = revFile
              /\ inv' = [inv EXCEPT ![p] = Exited([@ EXCEPT !.bumpFailed = TRUE], 1)]
    /\ UNCHANGED <<outFiles, today, results, invocations>>

\* file.write('1\n'); revision = 1
WriteNew(p) ==
    /\ inv[p].pc = "write_new"
    /\ \E ok \in BOOLEAN :
         inv' = [inv EXCEPT ![p] =
             IF ok THEN [@ EXCEPT !.pc = "close", !.pending = <<"1", NL>>, !.revision = 1]
             ELSE [@ EXCEPT !.pc = "close", !.bumpFailed = TRUE]]
    /\ UNCHANGED <<revFile, outFiles, today, results, invocations>>

\* finally: file.close(), which flushes what was written, and return revision;
\* an IOError of the flush is raised out of bump_revision
CloseRevFile(p) ==
    /\ inv[p].pc = "close"
    /\ IF inv[p].pending = <<>>
       THEN /\ inv' = [inv EXCEPT ![p].pc = "check_rev", ![p].returned = TRUE]
            /\ UNCHANGED <<revFile, results>>
       ELSE \E ok \in BOOLEAN :
              IF ok
              THEN /\ revFile' = File(WriteAt0(revFile.data, inv[p].pending))
                   /\ results' = Append(results, inv[p].revision)
                   /\ inv' = [inv EXCEPT ![p].pc = "check_rev", ![p].pending = <<>>,
                                         ![p].flushed = TRUE, ![p].returned = TRUE]
              ELSE /\ inv' = [inv EXCEPT ![p] =
                          Exited([@ EXCEPT !.pending = <<>>, !.bumpFailed = TRUE], 1)]
                   /\ UNCHANGED <<revFile, results>>
    /\ UNCHANGED <<outFiles, today, invocations>>

(***************************************************************************)
(* __main__ after the bump.                                                *)
(***************************************************************************)
\* if revision == -1: exit(1)
CheckRevision(p) ==
    /\ inv[p].pc = "check_rev"
    /\ inv' = [inv EXCEPT ![p] =
           IF @.revision = 0 - 1 THEN Exited(@, 1) ELSE [@ EXCEPT !.pc = "gen", !.next = 1]]
    /\ UNCHANGED <<revFile, outFiles, today, results, invocations>>

\* "If no program name is specified we use the path basename instead."
ProgName(n) == IF n.given THEN n.name ELSE Basename(BasePath)

\* if args['i'].count(f) == 1
Selected(i, f) == Count(i, f) = 1

\* after the statement of one format: the next one, or the end of the script
Advance(me) ==
    IF me.next = Len(Order) THEN Exited(me, 0) ELSE [me EXCEPT !.next = @ + 1]

\* the if statement of the next format, with the codegen it may call: the
\* open fails (codegen returns False), or the file is truncated and then the
\* write fails (the IOError is not caught), or the file is written
Generate(p) ==
    /\ inv[p].pc = "gen"
    /\ LET me   == inv[p]
           f    == Order[me.next]
           date == DateStr(Days[today + 1])
           text == CodegenText(f, ProgName(me.n), Str(me.vernum), Str(me.revision), date)
       IN  IF ~Selected(me.i, f)
           THEN /\ inv' = [inv EXCEPT ![p] = Advance(me)]
                /\ UNCHANGED outFiles
           ELSE \E outcome \in {"written", "open fails", "write fails"} :
                  CASE outcome = "open fails" ->
                         /\ inv' = [inv EXCEPT ![p] =
                                Advance([me EXCEPT !.ran = @ \cup {f}, !.failed = @ \cup {f}])]
                         /\ UNCHANGED outFiles
                    [] outcome = "write fails" ->
                         /\ inv' = [inv EXCEPT ![p] =
                                Exited([me EXCEPT !.ran = @ \cup {f}, !.opened = @ \cup {f},
                                                  !.failed = @ \cup {f}], 1)]
                         /\ outFiles' = [outFiles EXCEPT ![f] = File(<<>>)]
                    [] outcome = "written" ->
                         /\ inv' = [inv EXCEPT ![p] =
                                Advance([me EXCEPT !.ran = @ \cup {f}, !.opened = @ \cup {f},
                                                   !.wrote = @ \cup {f}])]
                         /\ outFiles' = [outFiles EXCEPT ![f] = File(text)]
    /\ UNCHANGED <<revFile, today, results, invocations>>

\* midnight passes
Tick ==
    /\ today < MaxTicks
    /\ today' = today + 1
    /\ UNCHANGED <<revFile, outFiles, inv, results, invocations>>

\* the script is run again
NewInvocation(p) ==
    /\ inv[p].pc = "exited"
    /\ invocations < MaxInvocations
    /\ inv' = [inv EXCEPT ![p] = Idle]
    /\ UNCHANGED <<revFile, outFiles, today, results, invocations>>

\* the steps of an invocation after its start
Step(p) ==
    \/ CheckFormats(p)
    \/ IsFile(p)
    \/ OpenExisting(p)
    \/ ReadRevision(p)
    \/ Seek(p)
    \/ WriteBumped(p)
    \/ OpenNew(p)
    \/ WriteNew(p)
    \/ CloseRevFile(p)
    \/ CheckRevision(p)
    \/ Generate(p)

(***************************************************************************)
(* Specifications.                                                         *)
(***************************************************************************)
\* one invocation, on any counter file and any generated files
Next ==
    \/ MainStart(1, Suffixes, NameArgs)
    \/ Step(1)
    \/ Tick

Spec == Init /\ [][Next]_vars

\* the -i arguments of the repeated invocations
SeqSuffixes == {<<>>, <<"x">>, <<"h">>, <<"s", "s">>}

\* invocations one after the other, starting with no counter file
NextSeq ==
    \/ MainStart(1, SeqSuffixes, {[given |-> FALSE, name |-> <<>>]})
    \/ Step(1)
    \/ NewInvocation(1)

SpecSeq == InitFresh /\ [][NextSeq]_vars

\* two invocations at the same time, on a counter file the tool wrote
NextConc ==
    \E p \in Procs :
        \/ MainStart(p, {<<"h">>}, {[given |-> FALSE, name |-> <<>>]})
        \/ Step(p)

SpecConc == InitConc /\ [][NextConc]_vars

(***************************************************************************)
(* Vocabulary of the properties.                                           *)
(***************************************************************************)
Exit(p) == inv[p].pc = "exited"

\* the -i argument holds the letter of format f
Chosen(i, f) == \E k \in 1..Len(i) : i[k] = f

\* the -i argument holds none of the letters h, i, s
NoFormatLetter(i) == \A k \in 1..Len(i) : i[k] \notin {"h", "i", "s"}

\* the first line of the counter file is an integer
HasValue(file) == file.exists /\ IsInt(ReadLine(file.data))

\* the counter value a file stores; 0 stands for a file that stores none
Value(file) == IF HasValue(file) THEN IntVal(ReadLine(file.data)) ELSE 0

\* bump_revision returned after it rewrote the counter file
Bumped(p) == inv[p].returned /\ inv[p].flushed /\ ~inv[p].bumpFailed

\* the date strings of the calendar
DateStrs == {DateStr(Days[k]) : k \in 1..Len(Days)}

(***************************************************************************)
(* C1: two bumps of the same existing counter file, holding N, that both   *)
(* complete successfully, in whatever order their steps interleave, return *)
(* N+1 and N+2 and leave N+2 in the file.                                  *)
(***************************************************************************)
C1_BumpIsAtomic ==
    (/\ \A p \in Procs : Bumped(p) /\ inv[p].rev0.exists
     /\ \A p \in Procs : inv[p].pc \notin {"idle", "formats", "isfile"})
    => LET n == CHOOSE m \in {Value(inv[p].rev0) : p \in Procs} :
                    \A p \in Procs : m <= Value(inv[p].rev0)
       IN  /\ {inv[p].revision : p \in Procs} = {n + 1, n + 2}
           /\ revFile = File(Str(n + 2) \o <<NL>>)

(***************************************************************************)
(* C2: a bump without I/O failure returns 1 and leaves the file "1\n" when *)
(* there was no counter file; and when there was one whose first line is   *)
(* the integer N, it returns N+1 and leaves a file whose whole content is  *)
(* the line N+1.                                                           *)
(***************************************************************************)
C2_SingleBump ==
    Bumped(1) =>
        IF ~inv[1].rev0.exists
        THEN inv[1].revision = 1 /\ revFile = File(<<"1", NL>>)
        ELSE HasValue(inv[1].rev0) =>
               /\ inv[1].revision = Value(inv[1].rev0) + 1
               /\ revFile = File(Str(Value(inv[1].rev0) + 1) \o <<NL>>)

(***************************************************************************)
(* C3: over invocations run one after the other from no counter file, a    *)
(* stored value is at least 1 and is the number of successful bumps so     *)
(* far, the k-th successful bump returned k, a finished invocation whose   *)
(* bump succeeded raised the value by exactly 1, and one that selected no  *)
(* format or whose bump failed left it as it was.                          *)
(***************************************************************************)
C3_CounterCountsBumps ==
    /\ HasValue(revFile) => Value(revFile) >= 1
    /\ Value(revFile) = Len(results)
    /\ Len(results) >= 1 => revFile = File(Str(Len(results)) \o <<NL>>)
    /\ \A k \in 1..Len(results) : results[k] = k
    /\ Exit(1) /\ Bumped(1) =>
          /\ Value(revFile) = Value(inv[1].rev0) + 1
          /\ inv[1].revision = Value(revFile)
    /\ Exit(1) /\ ~Bumped(1) => Value(revFile) = Value(inv[1].rev0)

\* ten bumps succeeded, the counter file holds 10, and some invocation did not bump
C3_Witness ==
    /\ Len(results) = 10
    /\ revFile = File(<<"1", "0", NL>>)
    /\ invocations > Len(results)
    /\ Exit(1) /\ Bumped(1)

(***************************************************************************)
(* C4: an -i argument without any of the letters h, i, s ends the          *)
(* invocation with exit code 1 before bump_revision is called: the counter *)
(* file and the three generated files stay as they were.                   *)
(***************************************************************************)
C4_NoFormatNoEffect ==
    (inv[1].pc # "idle" /\ NoFormatLetter(inv[1].i)) =>
        /\ inv[1].pc \in {"formats", "exited"}
        /\ ~inv[1].bumpCalled
        /\ inv[1].ran = {}
        /\ revFile = inv[1].rev0
        /\ outFiles = inv[1].out0
        /\ Exit(1) => inv[1].exitCode = 1

\* such an invocation has ended, with a counter file and generated files present
C4_Witness ==
    /\ Exit(1)
    /\ inv[1].i = <<"x">>
    /\ inv[1].exitCode = 1
    /\ revFile = File(<<"2", NL>>)
    /\ \A f \in Formats : outFiles[f] = OldOut

(***************************************************************************)
(* C5: when the bump fails (the counter file cannot be opened, read or     *)
(* written, or its first line is no integer) the invocation ends with a    *)
(* nonzero exit code, no generator runs, no generated file changes, and a  *)
(* counter file that existed keeps its content.                            *)
(***************************************************************************)
C5_BumpFailureAborts ==
    inv[1].bumpFailed =>
        /\ inv[1].pc # "gen"
        /\ inv[1].ran = {}
        /\ outFiles = inv[1].out0
        /\ inv[1].rev0.exists => revFile = inv[1].rev0
        /\ Exit(1) => inv[1].exitCode # 0

(***************************************************************************)
(* C6: after a successful bump, when the generator of one format fails to  *)
(* open or to write its file, the generator of every other selected format *)
(* still runs, and writes its file unless it fails itself.  (Stated for -i *)
(* arguments that hold no letter twice.)                                   *)
(***************************************************************************)
C6_GeneratorsIndependent ==
    (/\ Exit(1) /\ Bumped(1)
     /\ inv[1].failed # {}
     /\ \A f \in Formats : Count(inv[1].i, f) <= 1)
    => \A g \in Formats :
          Chosen(inv[1].i, g) => g \in inv[1].ran /\ g \in (inv[1].wrote \cup inv[1].failed)

(***************************************************************************)
(* C7: in an invocation that bumped the counter and ran to its end, the    *)
(* generator of a format ran if and only if the letter of the format       *)
(* occurs in the -i argument.                                              *)
(***************************************************************************)
C7_GeneratedIffLetterPresent ==
    (Exit(1) /\ inv[1].exitCode = 0 /\ Bumped(1)) =>
        \A f \in Formats : f \in inv[1].ran <=> Chosen(inv[1].i, f)

(***************************************************************************)
(* C8: an invocation in which a generator failed to open or to write its   *)
(* file ends with a nonzero exit code.                                     *)
(***************************************************************************)
C8_GeneratorFailureExitCode ==
    (Exit(1) /\ inv[1].failed # {}) => inv[1].exitCode # 0

(***************************************************************************)
(* C9: in an invocation whose bump did not fail, no generated file is      *)
(* opened before the bump has succeeded, the bump rewrote the counter file *)
(* once, and all files written embed one descriptor: the name, the         *)
(* version, the revision the bump returned and one and the same date.      *)
(***************************************************************************)
C9_OneDescriptor ==
    ~inv[1].bumpFailed =>
        /\ inv[1].opened # {} => Bumped(1) /\ Len(results) = 1
        /\ \E d \in DateStrs :
              \A f \in inv[1].wrote :
                 outFiles[f] = File(CodegenText(f, ProgName(inv[1].n), Str(inv[1].vernum),
                                                Str(inv[1].revision), d))

(***************************************************************************)
(* C10: on a counter file whose first line is an integer, bump_revision    *)
(* returns -1 only if it left the counter file as it was.                  *)
(***************************************************************************)
C10_ErrorValueNotARevision ==
    (/\ HasValue(inv[1].rev0)
     /\ inv[1].returned
     /\ inv[1].revision = 0 - 1)
    => ~inv[1].flushed /\ revFile = inv[1].rev0

=============================================================================
